---- MODULE Spec2Model ----
(***************************************************************************)
(* ConcreteSection (concreteproperties/concrete_section.py): construction, *)
(* gross and plastic properties, section actions at a neutral-axis depth,  *)
(* the bracketed neutral-axis search and the moment interaction diagram.   *)
(* Spec is one caller making calls one after the other; SpecConc is two    *)
(* callers whose calls on one object interleave.                          *)
(*                                                                         *)
(* Numbers are fixed point.  Lengths and depths are integers in units of   *)
(* 1/EpsDen of the length unit, so that a = 1e-6 * d_t is exact; areas,    *)
(* lever arms and forces are kept at 1/Res of the length unit.  Strains    *)
(* are integers in units of 1e-4.  The neutral-axis angle theta is 0 or    *)
(* 180 degrees (Thetas), for which the rotation into local coordinates is  *)
(* exact: v = y for theta = 0 and v = -y for theta = 180.                  *)
(***************************************************************************)
EXTENDS Integers, Sequences, FiniteSets, TLC

\* a = 1e-6 * d_t: the denominator of the factor
EpsDen == 1000000
\* brentq(xtol=1e-3): the denominator of the absolute tolerance
XtolDen == 1000
\* brentq(rtol=1e-6): the denominator of the relative tolerance
RtolDen == 1000000
\* brentq: maxiter is left at its default
BrentMaxIter == 100
\* resolution of areas, lever arms and forces: that of the search, xtol
Res == XtolDen
\* largest n_points given to moment_interaction_diagram
MaxNPoints == 3
\* how many times the gross property methods are called again after construction
MaxRecalc == 2

One == EpsDen
Tenth == One \div 10
Fine == One \div Res

Thetas == {0, 180}
Sgn(theta) == IF theta = 0 THEN 1 ELSE -1

Abs(x) == IF x < 0 THEN -x ELSE x
Min(x, y) == IF x < y THEN x ELSE y
Max(x, y) == IF x < y THEN y ELSE x

RECURSIVE SumSeq(_)
SumSeq(s) == IF s = <<>> THEN 0 ELSE Head(s) + SumSeq(Tail(s))

RECURSIVE MaxSeq(_)
MaxSeq(s) == IF Len(s) <= 1 THEN s[1] ELSE Max(Head(s), MaxSeq(Tail(s)))

RECURSIVE MinSeq(_)
MinSeq(s) == IF Len(s) <= 1 THEN s[1] ELSE Min(Head(s), MinSeq(Tail(s)))

(***************************************************************************)
(* Stress-strain profiles: strains are the unique strains in ascending     *)
(* order, from 0 to the ultimate strain; on the segment from strains[i]    *)
(* to strains[i+1] the stress runs linearly from lo[i] to hi[i].           *)
(***************************************************************************)
RectangularBlock == [strains |-> <<0, 6, 30>>, lo |-> <<0, 4>>, hi |-> <<0, 4>>]
BilinearProfile == [strains |-> <<0, 10, 30>>, lo |-> <<0, 3>>, hi |-> <<3, 3>>]
TrilinearProfile ==
    [strains |-> <<0, 10, 20, 30>>, lo |-> <<0, 2, 3>>, hi |-> <<2, 3, 3>>]
LinearProfile == [strains |-> <<0, 35>>, lo |-> <<0>>, hi |-> <<4>>]
NoStrength == [strains |-> <<0, 6, 30>>, lo |-> <<0, 0>>, hi |-> <<0, 0>>]
NoProfile == [strains |-> <<0, 30>>, lo |-> <<0>>, hi |-> <<0>>]

(***************************************************************************)
(* Materials.  kind is the class of the material object ("Other" is any    *)
(* material that is neither a Concrete nor a Steel).                       *)
(***************************************************************************)
Mat(kind, E, rho, a1, fc, fy, prof) ==
    [kind |-> kind, elastic_modulus |-> E, density |-> rho, alpha_1 |-> a1,
     compressive_strength |-> fc, yield_strength |-> fy,
     stress_strain_profile |-> prof]

Conc40 == Mat("Concrete", 1, 2, 1, 4, 0, RectangularBlock)
Conc30 == Mat("Concrete", 1, 2, 1, 3, 0, BilinearProfile)
Conc30T == Mat("Concrete", 1, 2, 1, 3, 0, TrilinearProfile)
ConcLin == Mat("Concrete", 1, 2, 1, 4, 0, LinearProfile)
Conc0 == Mat("Concrete", 1, 2, 1, 0, 0, NoStrength)
Steel400 == Mat("Steel", 2, 8, 0, 0, 40, NoProfile)
Steel0 == Mat("Steel", 2, 8, 0, 0, 0, NoProfile)
Timber == Mat("Other", 1, 1, 0, 0, 0, NoProfile)

(***************************************************************************)
(* A region of the geometry is a horizontal strip: width b (in length      *)
(* units), y from y0 to y1 and centroid x-coordinate cx (in tenths of the  *)
(* length unit), and its material.                                         *)
(***************************************************************************)
Strip(b, y0, y1, cx, m) ==
    [b |-> b, y0 |-> y0 * Tenth, y1 |-> y1 * Tenth, cx |-> cx * Tenth, material |-> m]

Sections ==
    { <<Strip(2, 0, 30, 10, Conc40), Strip(1, 4, 6, 10, Steel400)>>,
      <<Strip(2, 0, 10, 10, Conc30), Strip(1, 10, 20, 5, Conc40),
        Strip(1, 2, 4, 10, Steel400), Strip(1, 16, 18, 5, Steel400)>>,
      <<Strip(2, 0, 20, 10, Conc30T), Strip(1, 3, 5, 10, Steel400)>>,
      <<Strip(2, 0, 20, 10, ConcLin), Strip(1, 3, 5, 10, Steel400)>>,
      <<Strip(2, 0, 10, 10, Conc40), Strip(1, 10, 20, 5, ConcLin),
        Strip(1, 2, 4, 10, Steel400)>>,
      <<Strip(2, 0, 20, 10, Conc40), Strip(1, 3, 5, 10, Steel400),
        Strip(1, 20, 30, 10, Timber)>>,
      <<Strip(2, 0, 20, 10, Conc0), Strip(1, 3, 5, 10, Steel0)>>,
      <<Strip(2, 0, 20, 10, Conc40)>>,
      <<Strip(1, 3, 5, 10, Steel400)>>,
      <<>> }

\* geom.calculate_area()
calculate_area(g) == g.b * ((g.y1 - g.y0) \div Fine)

\* geom.calculate_centroid(): (x, y), at the resolution of lever arms
calculate_centroid(g) == <<g.cx \div Fine, ((g.y0 + g.y1) \div 2) \div Fine>>

(***************************************************************************)
(* ConcreteProperties: the dataclass of gross section properties, every    *)
(* field 0 when created.                                                   *)
(***************************************************************************)
ConcreteProperties ==
    [total_area |-> 0, concrete_area |-> 0, steel_area |-> 0, e_a |-> 0,
     mass |-> 0, perimeter |-> 0, e_qx |-> 0, e_qy |-> 0, cx |-> 0, cy |-> 0,
     e_ixx_g |-> 0, e_iyy_g |-> 0, e_ixy_g |-> 0,
     squash_load |-> 0, tensile_load |-> 0, axial_pc_x |-> 0, axial_pc_y |-> 0,
     conc_ultimate_strain |-> 0]

\* __init__: the regions whose material is an instance of class kind, in order
RECURSIVE SortGeoms(_, _)
SortGeoms(gs, kind) ==
    IF gs = <<>> THEN <<>>
    ELSE (IF Head(gs).material.kind = kind THEN <<Head(gs)>> ELSE <<>>)
         \o SortGeoms(Tail(gs), kind)

\* __init__: "geometry must contain both Concrete and Steel geometries."
ValidInput(conc, steel) == ~(Len(conc) = 0 \/ Len(steel) = 0)

\* one pass of the concrete loop or of the steel loop of
\* calculate_gross_area_properties; area_field is the area it adds to
RECURSIVE AccumulateAreas(_, _, _)
AccumulateAreas(gp, gs, area_field) ==
    IF gs = <<>> THEN gp
    ELSE LET g == Head(gs)
             area == calculate_area(g)
             centroid == calculate_centroid(g)
             E == g.material.elastic_modulus
             gp1 == [gp EXCEPT
                       ![area_field] = @ + area,
                       !.e_a = @ + area * E,
                       !.mass = @ + area * g.material.density,
                       !.e_qx = @ + area * E * centroid[2],
                       !.e_qy = @ + area * E * centroid[1]]
         IN AccumulateAreas(gp1, Tail(gs), area_field)

\* self.gross_properties.total_area = concrete_area + steel_area
TotalArea(gp) == gp.concrete_area + gp.steel_area

\* geometry.calculate_perimeter(): the regions' strips are stacked or nested,
\* the outline is that of the bounding rectangle
calculate_perimeter(gs) ==
    IF gs = <<>> THEN 0
    ELSE 2 * (MaxSeq([i \in 1..Len(gs) |-> gs[i].b]) * Res
              + (MaxSeq([i \in 1..Len(gs) |-> gs[i].y1])
                 - MinSeq([i \in 1..Len(gs) |-> gs[i].y0])) \div Fine)

\* the second moments (ixx, iyy, ixy) of the elements of
\* AnalysisSection(geometry=conc_geom, order=2), summed over the region;
\* coordinates in tenths of the length unit
ElementSecondMoments(g) ==
    LET y0 == g.y0 \div Tenth
        y1 == g.y1 \div Tenth
        x == g.cx \div Tenth
        E == g.material.elastic_modulus
    IN <<E * g.b * ((y1 * y1 * y1 - y0 * y0 * y0) \div 3),
         E * g.b * (y1 - y0) * x * x,
         E * g.b * (y1 - y0) * x * ((y0 + y1) \div 2)>>

RECURSIVE AccumulateSecondMoments(_, _)
AccumulateSecondMoments(gp, gs) ==
    IF gs = <<>> THEN gp
    ELSE LET el == ElementSecondMoments(Head(gs))
         IN AccumulateSecondMoments(
                [gp EXCEPT !.e_ixx_g = @ + el[1], !.e_iyy_g = @ + el[2],
                           !.e_ixy_g = @ + el[3]],
                Tail(gs))

\* calculate_gross_area_properties, on the stored gross properties gp
calculate_gross_area_properties(gp, gs, conc, steel) ==
    LET gp1 == AccumulateAreas(gp, conc, "concrete_area")
        gp2 == AccumulateAreas(gp1, steel, "steel_area")
        gp3 == [gp2 EXCEPT !.total_area = TotalArea(gp2),
                           !.perimeter = calculate_perimeter(gs)]
        gp4 == [gp3 EXCEPT !.cx = gp3.e_qy \div gp3.e_a,
                           !.cy = gp3.e_qx \div gp3.e_a]
    IN AccumulateSecondMoments(gp4, conc)

(***************************************************************************)
(* calculate_gross_plastic_properties.  PlasticTotals is the state of the  *)
(* local accumulators after the two loops.                                 *)
(***************************************************************************)
\* a compressive force that leaves out the compressive strength
ConcreteForceUnscaled(g) == calculate_area(g) * g.material.alpha_1

ConcreteForce(g) ==
    calculate_area(g) * g.material.alpha_1 * g.material.compressive_strength
SteelForce(g) == calculate_area(g) * g.material.yield_strength

\* accumulators whose tensile load adds the bar forces (tensile_load += force)
PlasticTotalsAdded(conc, steel) ==
    LET fc == [i \in 1..Len(conc) |-> ConcreteForce(conc[i])]
        fs == [i \in 1..Len(steel) |-> SteelForce(steel[i])]
    IN [squash_load |-> SumSeq(fc) + SumSeq(fs),
        tensile_load |-> SumSeq(fs),
        squash_moment_x |->
            SumSeq([i \in 1..Len(conc) |-> fc[i] * calculate_centroid(conc[i])[1]])
            + SumSeq([i \in 1..Len(steel) |-> fs[i] * calculate_centroid(steel[i])[1]]),
        squash_moment_y |->
            SumSeq([i \in 1..Len(conc) |-> fc[i] * calculate_centroid(conc[i])[2]])
            + SumSeq([i \in 1..Len(steel) |-> fs[i] * calculate_centroid(steel[i])[2]])]

PlasticTotals(conc, steel) ==
    LET fc == [i \in 1..Len(conc) |-> ConcreteForce(conc[i])]
        fs == [i \in 1..Len(steel) |-> SteelForce(steel[i])]
    IN [squash_load |-> SumSeq(fc) + SumSeq(fs),
        tensile_load |-> SumSeq([i \in 1..Len(steel) |-> -fs[i]]),
        squash_moment_x |->
            SumSeq([i \in 1..Len(conc) |-> fc[i] * calculate_centroid(conc[i])[1]])
            + SumSeq([i \in 1..Len(steel) |-> fs[i] * calculate_centroid(steel[i])[1]]),
        squash_moment_y |->
            SumSeq([i \in 1..Len(conc) |-> fc[i] * calculate_centroid(conc[i])[2]])
            + SumSeq([i \in 1..Len(steel) |-> fs[i] * calculate_centroid(steel[i])[2]])]

\* squash_moment / squash_load raises ZeroDivisionError when the squash load is 0:
\* the code has no other check of it
PlasticDivides(conc, steel) == PlasticTotals(conc, steel).squash_load # 0

\* get_ultimate_strain() of the first concrete geometry's profile
get_ultimate_strain(prof) == prof.strains[Len(prof.strains)]

\* the stored properties when the method returns (PlasticDivides holds)
calculate_gross_plastic_properties(gp, conc, steel) ==
    LET t == PlasticTotals(conc, steel)
    IN [gp EXCEPT
          !.squash_load = t.squash_load,
          !.tensile_load = t.tensile_load,
          !.axial_pc_x = t.squash_moment_x \div t.squash_load,
          !.axial_pc_y = t.squash_moment_y \div t.squash_load,
          !.conc_ultimate_strain =
              get_ultimate_strain(conc[1].material.stress_strain_profile)]

\* the stored properties when the division raises: the two loads are
\* assigned before it (lines 180-181)
PlasticPartial(gp, conc, steel) ==
    LET t == PlasticTotals(conc, steel)
    IN [gp EXCEPT !.squash_load = t.squash_load, !.tensile_load = t.tensile_load]

(***************************************************************************)
(* Local coordinates for the angle theta, and the helpers of utils.        *)
(***************************************************************************)
\* principal_coordinate(phi, x, y)[1]: the v coordinate of a point
LocalV(theta, y) == Sgn(theta) * y

\* global_coordinate(phi, x11=0, y22=mv): (my, mx)
global_coordinate(theta, mv) == <<0, Sgn(theta) * mv>>

\* a region in local coordinates: lo and hi are its bottom (tension side)
\* and top (compression side) v coordinates; src is its place in the
\* concrete geometries
LocalPiece(g, theta, src) ==
    [lo |-> Min(LocalV(theta, g.y0), LocalV(theta, g.y1)),
     hi |-> Max(LocalV(theta, g.y0), LocalV(theta, g.y1)),
     b |-> g.b, material |-> g.material, src |-> src]

\* utils.calculate_extreme_fibre(points, theta): the v coordinate of the
\* extreme compressive fibre and the depth d_t of the extreme tensile fibre,
\* over the points of every region of the geometry
calculate_extreme_fibre(gs, theta) ==
    LET his == [i \in 1..Len(gs) |-> LocalPiece(gs[i], theta, i).hi]
        los == [i \in 1..Len(gs) |-> LocalPiece(gs[i], theta, i).lo]
    IN [extreme_fibre |-> MaxSeq(his), d_t |-> MaxSeq(his) - MinSeq(los)]

\* utils.point_on_neutral_axis(extreme_fibre, d_n, theta): its v coordinate
point_on_neutral_axis(extreme_fibre, d_n) == extreme_fibre - d_n

\* get_pc_local(theta)[1]: the v coordinate of the plastic centroid
get_pc_local(gp, theta) == LocalV(theta, gp.axial_pc_y)

\* utils.get_point_from_strain: the v coordinate at which the strain is reached
get_point_from_strain(strain, point_na, d_n, ultimate_strain) ==
    point_na + (strain * d_n) \div ultimate_strain

\* utils.get_strain(point, point_na, d_n, theta, ultimate_strain)
get_strain(v, point_na, d_n, ultimate_strain) ==
    (ultimate_strain * (v - point_na)) \div d_n

\* utils.split_section(geometry, point, theta): the parts of the pieces above
\* the line (top, compression side) and below it (bottom); a part of no area
\* is not produced
RECURSIVE SplitTop(_, _)
SplitTop(ps, pt) ==
    IF ps = <<>> THEN <<>>
    ELSE (IF Head(ps).hi > pt
          THEN <<[Head(ps) EXCEPT !.lo = Max(@, pt)]>> ELSE <<>>)
         \o SplitTop(Tail(ps), pt)

RECURSIVE SplitBot(_, _)
SplitBot(ps, pt) ==
    IF ps = <<>> THEN <<>>
    ELSE (IF Head(ps).lo < pt
          THEN <<[Head(ps) EXCEPT !.hi = Min(@, pt)]>> ELSE <<>>)
         \o SplitBot(Tail(ps), pt)

\* profile.get_unique_strains()[1:-1]
InteriorStrains(prof) == SubSeq(prof.strains, 2, Len(prof.strains) - 1)

(***************************************************************************)
(* The splitting loop of calculate_section_actions (lines 419-449).  st is *)
(* the state of the locals: split (concrete_split_geoms), top_bound and    *)
(* top (top_geoms, unbound until the first split_section call of the       *)
(* method), nsplit (split_section calls made), err (the NameError raised   *)
(* when top_geoms is read unbound).                                        *)
(***************************************************************************)
RECURSIVE SplitAtStrains(_, _, _, _, _, _)
SplitAtStrains(st, cur, strains, point_na, d_n, ultimate_strain) ==
    IF strains = <<>> THEN st
    ELSE LET pt == get_point_from_strain(Head(strains), point_na, d_n, ultimate_strain)
             top_geoms == SplitTop(cur, pt)
             bot_geoms == SplitBot(cur, pt)
             st1 == [st EXCEPT !.split = @ \o bot_geoms, !.top_bound = TRUE,
                               !.top = top_geoms, !.nsplit = @ + 1]
         IN SplitAtStrains(st1, top_geoms, Tail(strains), point_na, d_n,
                           ultimate_strain)

RECURSIVE SplitConcrete(_, _, _, _, _, _, _)
SplitConcrete(st, conc, i, theta, point_na, d_n, ultimate_strain) ==
    IF i > Len(conc) \/ st.err THEN st
    ELSE LET strains == InteriorStrains(conc[i].material.stress_strain_profile)
             st1 == SplitAtStrains(st, <<LocalPiece(conc[i], theta, i)>>, strains,
                                   point_na, d_n, ultimate_strain)
             st2 == IF st1.top_bound
                    THEN [st1 EXCEPT !.split = @ \o st1.top]
                    ELSE [st1 EXCEPT !.err = TRUE]
         IN SplitConcrete(st2, conc, i + 1, theta, point_na, d_n, ultimate_strain)

SplitStart == [split |-> <<>>, top_bound |-> FALSE, top |-> <<>>, nsplit |-> 0,
               err |-> FALSE]

(***************************************************************************)
(* AnalysisSection(geometry).ultimate_stress_analysis: stress times area   *)
(* integrated over a piece, segment of the profile by segment.             *)
(***************************************************************************)
\* the force of segment i of the profile on the piece: the stress runs
\* linearly from lo[i] at v = vlo to hi[i] at v = vhi
SegmentForce(p, i, point_na, d_n, ultimate_strain) ==
    LET prof == p.material.stress_strain_profile
        vlo == get_point_from_strain(prof.strains[i], point_na, d_n, ultimate_strain)
        vhi == get_point_from_strain(prof.strains[i + 1], point_na, d_n, ultimate_strain)
        olo == Max(p.lo, vlo)
        ohi == Min(p.hi, vhi)
        len == (ohi - olo) \div Fine
        seg == (vhi - vlo) \div Fine
        rise == prof.hi[i] - prof.lo[i]
    IN IF ohi <= olo \/ len = 0 \/ seg = 0 THEN [n |-> 0, mid |-> 0]
       ELSE [n |-> p.b * (prof.lo[i] * len
                          + (rise * (((olo - vlo) + (ohi - vlo)) \div Fine) * len)
                            \div (2 * seg)),
             mid |-> ((olo + ohi) \div 2) \div Fine]

ultimate_stress_analysis(p, point_na, d_n, ultimate_strain, pc_local) ==
    LET prof == p.material.stress_strain_profile
        segs == [i \in 1..(Len(prof.strains) - 1) |->
                    SegmentForce(p, i, point_na, d_n, ultimate_strain)]
    IN [n_sec |-> SumSeq([i \in 1..Len(segs) |-> segs[i].n]),
        mv_sec |-> SumSeq([i \in 1..Len(segs) |->
                              segs[i].n * (segs[i].mid - pc_local)])]

\* steel stress_strain_profile.get_stress(strain): elastic-plastic
SteelStress(m, strain) ==
    Max(-m.yield_strength, Min(m.yield_strength, m.elastic_modulus * strain))

\* a steel loop that takes the bar force off the axial force (n -= force)
SteelActionSubtracted(g, theta, point_na, d_n, ultimate_strain, pc_local) ==
    LET area == calculate_area(g)
        c_v == LocalV(theta, (g.y0 + g.y1) \div 2)
        strain == get_strain(c_v, point_na, d_n, ultimate_strain)
        force == SteelStress(g.material, strain) * area
    IN [n |-> -force, mv |-> force * ((c_v \div Fine) - pc_local)]

\* the steel loop of calculate_section_actions (lines 470-495), one bar
SteelAction(g, theta, point_na, d_n, ultimate_strain, pc_local) ==
    LET area == calculate_area(g)
        c_v == LocalV(theta, (g.y0 + g.y1) \div 2)
        strain == get_strain(c_v, point_na, d_n, ultimate_strain)
        force == SteelStress(g.material, strain) * area
    IN [n |-> force, mv |-> force * ((c_v \div Fine) - pc_local)]

\* a validation that rejects d_n = d_t as well, which the code does not
DnErrorStrict(d_n, d_t) ==
    IF d_n <= 0 THEN "ValueError: d_n must be positive."
    ELSE IF d_n >= d_t
         THEN "ValueError: d_n must lie within the section, i.e. d_n <= d_t"
         ELSE ""

\* the validation of d_n (lines 405-409): "" when d_n is accepted
DnError(d_n, d_t) ==
    IF d_n <= 0 THEN "ValueError: d_n must be positive."
    ELSE IF d_n > d_t
         THEN "ValueError: d_n must lie within the section, i.e. d_n <= d_t"
         ELSE ""

NoActions == [n |-> 0, mx |-> 0, my |-> 0, mv |-> 0]

\* lines 451-503 of calculate_section_actions: the actions summed over the
\* split concrete geometries and the steel geometries
IntegrateActions(split, steel, theta, point_na, d_n, ultimate_strain, pc_local) ==
    LET ca == [i \in 1..Len(split) |->
                 ultimate_stress_analysis(split[i], point_na, d_n, ultimate_strain,
                                          pc_local)]
        sa == [i \in 1..Len(steel) |->
                 SteelAction(steel[i], theta, point_na, d_n, ultimate_strain,
                             pc_local)]
        n == SumSeq([i \in 1..Len(ca) |-> ca[i].n_sec])
             + SumSeq([i \in 1..Len(sa) |-> sa[i].n])
        mv == SumSeq([i \in 1..Len(ca) |-> ca[i].mv_sec])
              + SumSeq([i \in 1..Len(sa) |-> sa[i].mv])
    IN [n |-> n, mx |-> global_coordinate(theta, mv)[2],
        my |-> global_coordinate(theta, mv)[1], mv |-> mv]

\* lines 451-503, given the state st the splitting loop ended in
ActionsOfSplit(st, steel, theta, point_na, d_n, ultimate_strain, pc_local) ==
    IF st.err
    THEN [err |-> "UnboundLocalError: top_geoms", res |-> NoActions,
          nsplit |-> st.nsplit, nint |-> 0]
    ELSE [err |-> "",
          res |-> IntegrateActions(st.split, steel, theta, point_na, d_n,
                                   ultimate_strain, pc_local),
          nsplit |-> st.nsplit, nint |-> Len(st.split)]

\* lines 411-503, for a depth that passed the validation
ActionsAtPoint(sec, theta, point_na, d_n, ultimate_strain, pc_local) ==
    ActionsOfSplit(
        SplitConcrete(SplitStart, sec.conc, 1, theta, point_na, d_n, ultimate_strain),
        sec.steel, theta, point_na, d_n, ultimate_strain, pc_local)

(***************************************************************************)
(* calculate_section_actions(d_n, theta) on the section sec, which holds   *)
(* what the method reads of self: gs (geometry), conc and steel (the       *)
(* concrete and steel geometries) and gp (the gross properties).  err is   *)
(* "" when the call returns, and then res is (n, mx, my, mv), which the    *)
(* call also stores in _ult_bend_res; nsplit and nint count the            *)
(* split_section and ultimate_stress_analysis calls made.                  *)
(***************************************************************************)
calculate_section_actions(sec, d_n, theta) ==
    LET ef == calculate_extreme_fibre(sec.gs, theta)
    IN IF DnError(d_n, ef.d_t) # ""
       THEN [err |-> DnError(d_n, ef.d_t), res |-> NoActions, nsplit |-> 0,
             nint |-> 0]
       ELSE ActionsAtPoint(sec, theta, point_on_neutral_axis(ef.extreme_fibre, d_n),
                           d_n, sec.gp.conc_ultimate_strain,
                           get_pc_local(sec.gp, theta))

(***************************************************************************)
(* scipy.optimize.brentq as ultimate_bending_capacity calls it (lines      *)
(* 344-353): f = normal_force_convergence, full_output=True, disp=False.   *)
(* args is (theta, n), the arguments brentq passes on to the objective.    *)
(* The state s of the search is Brent's: xpre, xcur, xblk with their       *)
(* residuals and the last two steps spre and scur; evals is the depths the *)
(* objective was evaluated at, in order, and stored what the last          *)
(* evaluation left in _ult_bend_res.                                       *)
(***************************************************************************)
Half(x) == IF x >= 0 THEN x \div 2 ELSE -((-x) \div 2)
Quot(x, y) == IF (x >= 0) = (y > 0) THEN Abs(x) \div Abs(y) ELSE -(Abs(x) \div Abs(y))

\* conv = n - actions[0]
Convergence(r, n) == [err |-> r.err, conv |-> n - r.res.n, res |-> r.res]

\* normal_force_convergence(d_n, theta, n)
normal_force_convergence(sec, d_n, theta, n) ==
    Convergence(calculate_section_actions(sec, d_n, theta), n)

\* a lower limit of 0, which the code does not use
BracketAZero(d_t) == 0

\* the depth limits of the search (lines 338-339)
BracketA(d_t) == d_t \div EpsDen
BracketB(d_t) == d_t

Xtol == One \div XtolDen
BrentDelta(xcur) == (Xtol + Abs(xcur) \div RtolDen) \div 2

\* the step from xcur by linear interpolation between (xcur, fcur) and
\* (x2, f2); brentq's inverse quadratic step, taken when xpre # xblk, is
\* modelled by the interpolation across the bracket
Interpolate(xcur, fcur, x2, f2) ==
    Quot(-(fcur * Quot(xcur - x2, Fine)), fcur - f2) * Fine

\* when the root is bracketed by xpre and xcur, xblk takes xpre
Rebracket(s) ==
    IF s.fpre # 0 /\ s.fcur # 0 /\ (s.fpre < 0) # (s.fcur < 0)
    THEN [s EXCEPT !.xblk = s.xpre, !.fblk = s.fpre,
                   !.spre = s.xcur - s.xpre, !.scur = s.xcur - s.xpre]
    ELSE s

\* xcur is made the end of the bracket with the smaller residual
Swap(s) ==
    IF Abs(s.fblk) < Abs(s.fcur)
    THEN [s EXCEPT !.xpre = s.xcur, !.xcur = s.xblk, !.xblk = s.xcur,
                   !.fpre = s.fcur, !.fcur = s.fblk, !.fblk = s.fcur]
    ELSE s

BrentSbis(s) == Half(s.xblk - s.xcur)

BrentConverged(s) == s.fcur = 0 \/ Abs(BrentSbis(s)) < BrentDelta(s.xcur)

\* the interpolated step, and whether it is taken rather than the bisection
BrentStry(s) ==
    IF s.xpre = s.xblk THEN Interpolate(s.xcur, s.fcur, s.xpre, s.fpre)
    ELSE Interpolate(s.xcur, s.fcur, s.xblk, s.fblk)

BrentInterpolates(s, stry) ==
    /\ Abs(s.spre) > BrentDelta(s.xcur)
    /\ Abs(s.fcur) < Abs(s.fpre)
    /\ 2 * Abs(stry) < Min(Abs(s.spre), 3 * Abs(BrentSbis(s)) - BrentDelta(s.xcur))

\* the state with the next steps spre and scur chosen
BrentChoose(s, stry, interp) ==
    [s EXCEPT !.spre = IF interp THEN s.scur ELSE BrentSbis(s),
              !.scur = IF interp THEN stry ELSE BrentSbis(s)]

\* the next depth, from the state before the step and the step scur
BrentXnew(s, scur) ==
    IF Abs(scur) > BrentDelta(s.xcur) THEN s.xcur + scur
    ELSE s.xcur + (IF BrentSbis(s) > 0 THEN BrentDelta(s.xcur)
                   ELSE -BrentDelta(s.xcur))

\* the state once the objective, evaluated at xnew, gave f
BrentAdvance(s, xnew, f) ==
    IF f.err # ""
    THEN [s EXCEPT !.status = "raised", !.err = f.err, !.evals = Append(@, xnew)]
    ELSE [s EXCEPT !.xpre = s.xcur, !.fpre = s.fcur, !.xcur = xnew,
                   !.fcur = f.conv, !.iter = @ + 1,
                   !.evals = Append(@, xnew), !.stored = f.res]

BrentEvalAt(sec, args, s, xnew) ==
    BrentAdvance(s, xnew, normal_force_convergence(sec, xnew, args[1], args[2]))

BrentStep(sec, args, s, stry) ==
    BrentEvalAt(sec, args, BrentChoose(s, stry, BrentInterpolates(s, stry)),
                BrentXnew(s, IF BrentInterpolates(s, stry) THEN stry ELSE BrentSbis(s)))

\* one iteration that evaluates the objective, from a state whose xcur has
\* the smaller residual and has not converged
BrentOneEval(sec, args, s) == BrentStep(sec, args, s, BrentStry(s))

RECURSIVE BrentLoop(_, _, _)

\* the search goes on while no status has been reached
BrentGoOn(sec, args, s) == IF s.status # "" THEN s ELSE BrentLoop(sec, args, s)

BrentIterate(sec, args, s) ==
    IF BrentConverged(s) THEN [s EXCEPT !.status = "converged"]
    ELSE BrentGoOn(sec, args, BrentOneEval(sec, args, s))

BrentLoop(sec, args, s) ==
    IF s.iter >= BrentMaxIter THEN [s EXCEPT !.status = "maxiter"]
    ELSE BrentIterate(sec, args, Swap(Rebracket(s)))

SignError == "ValueError: f(a) and f(b) must have different signs"

\* brentq after its first two evaluations, fa at a and fb at b (fb is not
\* evaluated when fa raised)
BrentFirst(a, b, fa, fb) ==
    LET s0 == [xpre |-> a, xcur |-> b, xblk |-> 0, fpre |-> fa.conv,
               fcur |-> fb.conv, fblk |-> 0, spre |-> 0, scur |-> 0, iter |-> 0,
               evals |-> <<a, b>>, stored |-> fb.res, status |-> "", err |-> ""]
    IN IF fa.err # ""
       THEN [s0 EXCEPT !.status = "raised", !.err = fa.err, !.evals = <<a>>,
                       !.fcur = 0, !.stored = NoActions]
       ELSE IF fb.err # ""
       THEN [s0 EXCEPT !.status = "raised", !.err = fb.err, !.fcur = 0,
                       !.stored = fa.res]
       ELSE IF fa.conv = 0 THEN [s0 EXCEPT !.status = "converged", !.xcur = a]
       ELSE IF fb.conv = 0 THEN [s0 EXCEPT !.status = "converged"]
       ELSE IF (fa.conv < 0) = (fb.conv < 0)
       THEN [s0 EXCEPT !.status = "signerr", !.err = SignError]
       ELSE s0

\* brentq(f, a, b, ...): status "converged" or "maxiter" (xcur is returned),
\* "signerr" (ValueError) or "raised" (the objective raised err)
brentq(sec, args, a, b) ==
    BrentGoOn(sec, args,
              BrentFirst(a, b, normal_force_convergence(sec, a, args[1], args[2]),
                         normal_force_convergence(sec, b, args[1], args[2])))

(***************************************************************************)
(* The attribute _ult_bend_res: absent until a method assigns it, the list *)
(* of four None that ultimate_bending_capacity starts from, or the actions *)
(* (n, mx, my, mv) the last completed calculate_section_actions stored.    *)
(***************************************************************************)
Absent == [set |-> "absent", val |-> NoActions]
FourNone == [set |-> "none", val |-> NoActions]
Stored(res) == [set |-> "vals", val |-> res]

\* what a search leaves in _ult_bend_res, which line 342 reset before it
AfterSearch(r) ==
    IF r.status = "raised" /\ Len(r.evals) = 1 THEN FourNone ELSE Stored(r.stored)

(***************************************************************************)
(* ultimate_bending_capacity(theta, n): err is "" when the call returns,   *)
(* and then (res, d_n) is the tuple returned; ubr is _ult_bend_res when    *)
(* the call ends; evals is the depths the search evaluated.                *)
(***************************************************************************)
\* lines 355-358, r being what brentq ended in: the actions are unpacked from
\* _ult_bend_res, the depth is brentq's
UnpackLast(r) ==
    [err |-> r.err,
     res |-> IF r.status \in {"converged", "maxiter"} THEN AfterSearch(r).val
             ELSE NoActions,
     d_n |-> IF r.status \in {"converged", "maxiter"} THEN r.xcur ELSE 0,
     ubr |-> AfterSearch(r),
     evals |-> r.evals]

SearchBracket(sec, theta, n, d_t) ==
    brentq(sec, <<theta, n>>, BracketA(d_t), BracketB(d_t))

ultimate_bending_capacity(sec, theta, n) ==
    UnpackLast(SearchBracket(sec, theta, n, calculate_extreme_fibre(sec.gs, theta).d_t))

\* np.linspace(start, stop, num)
linspace(start, stop, num) ==
    IF num <= 0 THEN <<>>
    ELSE IF num = 1 THEN <<start>>
    ELSE [i \in 1..num |->
            IF i = num THEN stop
            ELSE start + ((i - 1) * (stop - start)) \div (num - 1)]

\* a list one depth short, which the code does not produce
DnListShort(d_t, d_nb, n_points) == linspace(d_t, d_nb, n_points - 1)

\* the neutral axis depths of the diagram (line 250)
DnList(d_t, d_nb, n_points) == linspace(d_t, d_nb, n_points)

(***************************************************************************)
(* moment_interaction_diagram(theta, n_points, n_scale, m_scale,           *)
(* plot=False): err is "" when the call returns (n_curve, m_curve); ubr is *)
(* _ult_bend_res when the call ends.                                       *)
(***************************************************************************)
\* the first place of acts whose call raised, 0 when none did
RECURSIVE FirstRaised(_, _)
FirstRaised(acts, i) ==
    IF i > Len(acts) THEN 0
    ELSE IF acts[i].err # "" THEN i ELSE FirstRaised(acts, i + 1)

\* lines 236-274, u being the outcome of the pure bending search and acts
\* the outcomes of calculate_section_actions at the depths d_n_list
DiagramCurves(gp, n_scale, m_scale, u, d_n_list, acts, bad) ==
    IF bad # 0
    THEN [err |-> acts[bad].err, n_curve |-> <<>>, m_curve |-> <<>>,
          d_n_list |-> <<>>,
          ubr |-> IF bad = 1 THEN u.ubr ELSE Stored(acts[bad - 1].res)]
    ELSE [err |-> "",
          n_curve |-> <<gp.squash_load * n_scale>>
                      \o [i \in 1..Len(acts) |-> acts[i].res.n * n_scale]
                      \o <<gp.tensile_load * n_scale>>,
          m_curve |-> <<0>> \o [i \in 1..Len(acts) |-> acts[i].res.mv * m_scale]
                      \o <<0>>,
          d_n_list |-> d_n_list,
          ubr |-> IF Len(acts) = 0 THEN u.ubr ELSE Stored(acts[Len(acts)].res)]

DiagramActions(sec, theta, n_scale, m_scale, u, d_n_list, acts) ==
    DiagramCurves(sec.gp, n_scale, m_scale, u, d_n_list, acts, FirstRaised(acts, 1))

DiagramAtDepths(sec, theta, n_scale, m_scale, u, d_n_list) ==
    DiagramActions(sec, theta, n_scale, m_scale, u, d_n_list,
                   [i \in 1..Len(d_n_list) |->
                       calculate_section_actions(sec, d_n_list[i], theta)])

DiagramFrom(sec, theta, n_points, n_scale, m_scale, u) ==
    IF u.err # ""
    THEN [err |-> u.err, n_curve |-> <<>>, m_curve |-> <<>>, d_n_list |-> <<>>,
          ubr |-> u.ubr]
    ELSE DiagramAtDepths(sec, theta, n_scale, m_scale, u,
                         DnList(calculate_extreme_fibre(sec.gs, theta).d_t, u.d_n,
                                n_points))

moment_interaction_diagram(sec, theta, n_points, n_scale, m_scale) ==
    DiagramFrom(sec, theta, n_points, n_scale, m_scale,
                ultimate_bending_capacity(sec, theta, 0))

(***************************************************************************)
(* __init__(geometry): the attributes of the object when the constructor   *)
(* ends, and err, "" when it returns.  Nothing of gross_properties is      *)
(* computed when the input is rejected; when the division by the squash    *)
(* load raises, the object is left half computed and discarded.            *)
(***************************************************************************)
InputError == "ValueError: geometry must contain both Concrete and Steel geometries."

init(g) ==
    LET conc == SortGeoms(g, "Concrete")
        steel == SortGeoms(g, "Steel")
        gp1 == calculate_gross_area_properties(ConcreteProperties, g, conc, steel)
    IN IF ~ValidInput(conc, steel)
       THEN [err |-> InputError, conc |-> conc, steel |-> steel,
             gp |-> ConcreteProperties]
       ELSE IF ~PlasticDivides(conc, steel)
       THEN [err |-> "ZeroDivisionError", conc |-> conc, steel |-> steel,
             gp |-> PlasticPartial(gp1, conc, steel)]
       ELSE [err |-> "", conc |-> conc, steel |-> steel,
             gp |-> calculate_gross_plastic_properties(gp1, conc, steel)]

\* the fields of gross_properties that the analysis methods read
PlasticView(gp) ==
    [squash_load |-> gp.squash_load, tensile_load |-> gp.tensile_load,
     axial_pc_x |-> gp.axial_pc_x, axial_pc_y |-> gp.axial_pc_y,
     conc_ultimate_strain |-> gp.conc_ultimate_strain]

\* the section an analysis method reads, for the object constructed from g
SectionOf(g) ==
    [gs |-> g, conc |-> init(g).conc, steel |-> init(g).steel,
     gp |-> PlasticView(init(g).gp)]

\* the depths given to calculate_section_actions
DnInputs(sec, theta) ==
    LET d_t == calculate_extreme_fibre(sec.gs, theta).d_t
    IN {-One, 0, BracketA(d_t), d_t \div 2, d_t, d_t + 1}

\* the axial forces given to ultimate_bending_capacity: 0, forces outside
\* the range from the tensile load to the squash load, the forces at the
\* two ends of the bracket, and a force in between
NTargets(sec, theta) ==
    LET d_t == calculate_extreme_fibre(sec.gs, theta).d_t
    IN {0, sec.gp.squash_load + Res, sec.gp.tensile_load - Res,
        calculate_section_actions(sec, BracketB(d_t), theta).res.n,
        calculate_section_actions(sec, BracketA(d_t), theta).res.n,
        sec.gp.squash_load \div 4}

\* the (n_scale, m_scale) given to moment_interaction_diagram
Scales == {<<1, 1>>, <<2, 3>>}

(***************************************************************************)
(* The results of the two searching methods, tabulated for the sections    *)
(* and the arguments above.                                                *)
(***************************************************************************)
Constructible == {g \in Sections : init(g).err = ""}

UbcTable ==
    [k \in UNION {{<<SectionOf(g), theta, n>> : n \in NTargets(SectionOf(g), theta)} :
                     <<g, theta>> \in Constructible \X Thetas} |->
        ultimate_bending_capacity(k[1], k[2], k[3])]

MidTable ==
    [k \in {<<SectionOf(g), theta, n_points, sc[1], sc[2]>> :
               g \in Constructible, theta \in Thetas, n_points \in 0..MaxNPoints,
               sc \in Scales} |->
        moment_interaction_diagram(k[1], k[2], k[3], k[4], k[5])]

\* the two methods as the state machine calls them
Ubc(sec, theta, n) == UbcTable[<<sec, theta, n>>]

Mid(sec, theta, n_points, n_scale, m_scale) ==
    MidTable[<<sec, theta, n_points, n_scale, m_scale>>]

(***************************************************************************)
(* The state: one ConcreteSection object and the last call made on it.     *)
(***************************************************************************)
VARIABLES
    phase,                \* "new", "constructed", or "failed" (__init__ raised)
    geometry,             \* the geometry given to __init__
    concrete_geometries,  \* self.concrete_geometries
    steel_geometries,     \* self.steel_geometries
    gross_properties,     \* self.gross_properties
    _ult_bend_res,        \* self._ult_bend_res
    recalcs,              \* calls of the gross property methods after __init__
    call,                 \* the last call: its arguments and its outcome
    workers,              \* the calls in progress, when callers interleave
    aci                   \* the last call made on the ACI318 design code object

vars == <<phase, geometry, concrete_geometries, steel_geometries, gross_properties,
          _ult_bend_res, recalcs, call, workers, aci>>

NoCall ==
    [op |-> "none", theta |-> 0, d_n |-> 0, n |-> 0, n_points |-> 0, n_scale |-> 0,
     m_scale |-> 0, err |-> "", res |-> NoActions, root |-> 0, evals |-> <<>>,
     nsplit |-> 0, nint |-> 0, n_curve |-> <<>>, m_curve |-> <<>>,
     d_n_list |-> <<>>, pc |-> 0]

\* the callers that share the object
Workers == {1, 2}

\* a caller that has made no call: pc is its place in the call, s the state
\* of its search, mine the actions its own evaluations computed, ret the
\* actions it returned
Idle ==
    [pc |-> "idle", op |-> "none", theta |-> 0, n |-> 0, s |-> <<>>, mine |-> {},
     ret |-> Absent, d_n |-> 0, err |-> ""]

\* what the analysis methods read of self
Self ==
    [gs |-> geometry, conc |-> concrete_geometries, steel |-> steel_geometries,
     gp |-> PlasticView(gross_properties)]

\* no call has been made on the design code object
NoAciCall ==
    [fn |-> "none", args |-> <<>>, done |-> FALSE, err |-> "",
     material |-> [class |-> "None"], phis |-> <<>>, value |-> 0]

Init ==
    /\ phase = "new"
    /\ geometry \in Sections
    /\ concrete_geometries = <<>>
    /\ steel_geometries = <<>>
    /\ gross_properties = ConcreteProperties
    /\ _ult_bend_res = Absent
    /\ recalcs = 0
    /\ call = NoCall
    /\ workers = [w \in Workers |-> Idle]
    /\ aci = NoAciCall

\* ConcreteSection(geometry)
Construct ==
    /\ phase = "new"
    /\ LET r == init(geometry)
       IN /\ phase' = IF r.err = "" THEN "constructed" ELSE "failed"
          /\ concrete_geometries' = r.conc
          /\ steel_geometries' = r.steel
          /\ gross_properties' = r.gp
          /\ call' = [NoCall EXCEPT !.op = "init", !.err = r.err]
    /\ UNCHANGED <<geometry, _ult_bend_res, recalcs, workers, aci>>

\* the object and the record of the call when calculate_section_actions ended
\* in r: only a call that returns assigns _ult_bend_res (line 501)
SectionActionsDone(d_n, theta, r) ==
    /\ _ult_bend_res' = IF r.err = "" THEN Stored(r.res) ELSE _ult_bend_res
    /\ call' = [NoCall EXCEPT !.op = "calculate_section_actions",
                  !.theta = theta, !.d_n = d_n, !.err = r.err, !.res = r.res,
                  !.nsplit = r.nsplit, !.nint = r.nint]

\* section.calculate_section_actions(d_n, theta)
CalculateSectionActions(d_n, theta) ==
    /\ phase = "constructed"
    /\ SectionActionsDone(d_n, theta, calculate_section_actions(Self, d_n, theta))
    /\ UNCHANGED <<phase, geometry, concrete_geometries, steel_geometries,
                   gross_properties, recalcs, workers, aci>>

\* the object and the record of the call when ultimate_bending_capacity
\* ended in r
BendingCapacityDone(theta, n, r) ==
    /\ _ult_bend_res' = r.ubr
    /\ call' = [NoCall EXCEPT !.op = "ultimate_bending_capacity",
                  !.theta = theta, !.n = n, !.err = r.err, !.res = r.res,
                  !.root = r.d_n, !.evals = r.evals]

\* section.ultimate_bending_capacity(theta, n)
UltimateBendingCapacity(theta, n) ==
    /\ phase = "constructed"
    /\ BendingCapacityDone(theta, n, Ubc(Self, theta, n))
    /\ UNCHANGED <<phase, geometry, concrete_geometries, steel_geometries,
                   gross_properties, recalcs, workers, aci>>

\* the object and the record of the call when moment_interaction_diagram
\* ended in r
DiagramDone(theta, n_points, n_scale, m_scale, r) ==
    /\ _ult_bend_res' = r.ubr
    /\ call' = [NoCall EXCEPT !.op = "moment_interaction_diagram",
                  !.theta = theta, !.n_points = n_points, !.n_scale = n_scale,
                  !.m_scale = m_scale, !.err = r.err, !.n_curve = r.n_curve,
                  !.m_curve = r.m_curve, !.d_n_list = r.d_n_list]

\* section.moment_interaction_diagram(theta, n_points, n_scale, m_scale, plot=False)
MomentInteractionDiagram(theta, n_points, n_scale, m_scale) ==
    /\ phase = "constructed"
    /\ DiagramDone(theta, n_points, n_scale, m_scale,
                   Mid(Self, theta, n_points, n_scale, m_scale))
    /\ UNCHANGED <<phase, geometry, concrete_geometries, steel_geometries,
                   gross_properties, recalcs, workers, aci>>

\* section.get_pc_local(theta)
GetPcLocal(theta) ==
    /\ phase = "constructed"
    /\ call' = [NoCall EXCEPT !.op = "get_pc_local", !.theta = theta,
                              !.pc = get_pc_local(gross_properties, theta)]
    /\ UNCHANGED <<phase, geometry, concrete_geometries, steel_geometries,
                   gross_properties, _ult_bend_res, recalcs, workers, aci>>

\* section.calculate_gross_area_properties(), called again on the object
CalculateGrossAreaProperties ==
    /\ phase = "constructed"
    /\ recalcs < MaxRecalc
    /\ recalcs' = recalcs + 1
    /\ gross_properties' =
           calculate_gross_area_properties(gross_properties, geometry,
                                           concrete_geometries, steel_geometries)
    /\ call' = [NoCall EXCEPT !.op = "calculate_gross_area_properties"]
    /\ UNCHANGED <<phase, geometry, concrete_geometries, steel_geometries,
                   _ult_bend_res, workers, aci>>

\* section.calculate_gross_plastic_properties(), called again on the object
CalculateGrossPlasticProperties ==
    /\ phase = "constructed"
    /\ recalcs < MaxRecalc
    /\ recalcs' = recalcs + 1
    /\ gross_properties' =
           calculate_gross_plastic_properties(gross_properties,
                                              concrete_geometries, steel_geometries)
    /\ call' = [NoCall EXCEPT !.op = "calculate_gross_plastic_properties"]
    /\ UNCHANGED <<phase, geometry, concrete_geometries, steel_geometries,
                   _ult_bend_res, workers, aci>>

\* the methods are called on a constructed object: their arguments are drawn
\* from sets that depend on its geometry
Next ==
    \/ Construct
    \/ /\ phase = "constructed"
       /\ \E theta \in Thetas : \E d_n \in DnInputs(Self, theta) :
              CalculateSectionActions(d_n, theta)
    \/ /\ phase = "constructed"
       /\ \E theta \in Thetas : \E n \in NTargets(Self, theta) :
              UltimateBendingCapacity(theta, n)
    \/ \E theta \in Thetas, n_points \in 0..MaxNPoints, sc \in Scales :
           MomentInteractionDiagram(theta, n_points, sc[1], sc[2])
    \/ \E theta \in Thetas : GetPcLocal(theta)
    \/ CalculateGrossAreaProperties
    \/ CalculateGrossPlasticProperties

Spec == Init /\ [][Next]_vars

(***************************************************************************)
(* Callers that interleave on one object.  Each caller makes one call, and *)
(* a step of a call is what it does from one access to _ult_bend_res to    *)
(* the next: the reset of line 342, an evaluation of the objective (which  *)
(* ends in the assignment of line 501), the unpacking of line 356.         *)
(***************************************************************************)
\* the sections the callers share: reinforced sections whose calls return
ConcSections ==
    {g \in Constructible :
        Len(g) = 2 /\ InteriorStrains(g[1].material.stress_strain_profile) # <<>>}

\* the axial forces the interleaved searches are made for
ConcTargets(sec) == {0, sec.gp.squash_load \div 4}

\* brentq's checks after an evaluation: the search ends when the iterations
\* are used up or when it has converged
BrentSettle(s) ==
    IF s.status # "" THEN s
    ELSE IF s.iter >= BrentMaxIter THEN [s EXCEPT !.status = "maxiter"]
    ELSE IF BrentConverged(Swap(Rebracket(s)))
    THEN [Swap(Rebracket(s)) EXCEPT !.status = "converged"]
    ELSE s

\* lines 336-342: ultimate_bending_capacity(theta, n) begins
BeginSearch(w, theta, n) ==
    /\ phase = "constructed"
    /\ workers[w].pc = "idle"
    /\ _ult_bend_res' = FourNone
    /\ workers' = [workers EXCEPT ![w] =
                      [Idle EXCEPT !.pc = "a", !.op = "ultimate_bending_capacity",
                                   !.theta = theta, !.n = n]]
    /\ UNCHANGED <<phase, geometry, concrete_geometries, steel_geometries,
                   gross_properties, recalcs, call, aci>>

\* the evaluation at a gave f
FirstEvaluated(w, f) ==
    /\ _ult_bend_res' = IF f.err # "" THEN _ult_bend_res ELSE Stored(f.res)
    /\ workers' = [workers EXCEPT ![w] =
                      [@ EXCEPT !.pc = IF f.err # "" THEN "failed" ELSE "b",
                                !.s = f, !.err = f.err,
                                !.mine = IF f.err # "" THEN @ ELSE @ \cup {f.res}]]

\* an evaluation left the search in state s
SearchEvaluated(w, s) ==
    /\ _ult_bend_res' = IF s.status = "raised" THEN _ult_bend_res
                        ELSE Stored(s.stored)
    /\ workers' = [workers EXCEPT ![w] =
                      [@ EXCEPT !.pc = IF s.status = "" THEN "loop"
                                       ELSE IF s.status \in {"converged", "maxiter"}
                                       THEN "unpack" ELSE "failed",
                                !.s = s, !.err = s.err,
                                !.mine = IF s.status = "raised" THEN @
                                         ELSE @ \cup {s.stored}]]

\* brentq evaluates the objective at a
EvaluateA(w) ==
    /\ workers[w].pc = "a"
    /\ FirstEvaluated(w,
           normal_force_convergence(
               Self, BracketA(calculate_extreme_fibre(geometry, workers[w].theta).d_t),
               workers[w].theta, workers[w].n))
    /\ UNCHANGED <<phase, geometry, concrete_geometries, steel_geometries,
                   gross_properties, recalcs, call, aci>>

\* the two ends of the bracket evaluated, fa being the outcome at a
BracketEvaluated(w, d_t, fa) ==
    SearchEvaluated(w,
        BrentSettle(BrentFirst(BracketA(d_t), BracketB(d_t), fa,
                               normal_force_convergence(Self, BracketB(d_t),
                                                        workers[w].theta,
                                                        workers[w].n))))

\* brentq evaluates the objective at b
EvaluateB(w) ==
    /\ workers[w].pc = "b"
    /\ BracketEvaluated(w, calculate_extreme_fibre(geometry, workers[w].theta).d_t,
                        workers[w].s)
    /\ UNCHANGED <<phase, geometry, concrete_geometries, steel_geometries,
                   gross_properties, recalcs, call, aci>>

\* an iteration of brentq evaluates the objective
EvaluateNext(w) ==
    /\ workers[w].pc = "loop"
    /\ SearchEvaluated(w,
           BrentSettle(BrentOneEval(Self, <<workers[w].theta, workers[w].n>>,
                                    Swap(Rebracket(workers[w].s)))))
    /\ UNCHANGED <<phase, geometry, concrete_geometries, steel_geometries,
                   gross_properties, recalcs, call, aci>>

\* lines 355-358: the actions are unpacked from _ult_bend_res and returned
\* with brentq's depth
Unpack(w) ==
    /\ workers[w].pc = "unpack"
    /\ workers' = [workers EXCEPT ![w] =
                      [@ EXCEPT !.pc = "done", !.ret = _ult_bend_res,
                                !.d_n = workers[w].s.xcur]]
    /\ UNCHANGED <<phase, geometry, concrete_geometries, steel_geometries,
                   gross_properties, _ult_bend_res, recalcs, call, aci>>

\* calculate_section_actions(d_n, theta) ended in r: it returns its locals
SectionActionsReturned(w, d_n, theta, r) ==
    /\ _ult_bend_res' = IF r.err = "" THEN Stored(r.res) ELSE _ult_bend_res
    /\ workers' = [workers EXCEPT ![w] =
                      [Idle EXCEPT !.pc = IF r.err = "" THEN "done" ELSE "failed",
                                   !.op = "calculate_section_actions",
                                   !.theta = theta, !.d_n = d_n, !.err = r.err,
                                   !.ret = Stored(r.res), !.mine = {r.res}]]

\* a caller calls calculate_section_actions(d_n, theta)
SectionActions(w, d_n, theta) ==
    /\ phase = "constructed"
    /\ workers[w].pc = "idle"
    /\ SectionActionsReturned(w, d_n, theta,
                              calculate_section_actions(Self, d_n, theta))
    /\ UNCHANGED <<phase, geometry, concrete_geometries, steel_geometries,
                   gross_properties, recalcs, call, aci>>

InitConc == Init /\ geometry \in ConcSections

NextConc ==
    \/ Construct
    \/ /\ phase = "constructed"
       /\ \E w \in Workers, theta \in Thetas : \E n \in ConcTargets(Self) :
              BeginSearch(w, theta, n)
    \/ \E w \in Workers : EvaluateA(w)
    \/ \E w \in Workers : EvaluateB(w)
    \/ \E w \in Workers : EvaluateNext(w)
    \/ \E w \in Workers : Unpack(w)
    \/ /\ phase = "constructed"
       /\ \E w \in Workers, theta \in Thetas :
              SectionActions(w, calculate_extreme_fibre(geometry, theta).d_t \div 2,
                             theta)

SpecConc == InitConc /\ [][NextConc]_vars

(***************************************************************************)
(* The ACI318 design code object (design_codes/aci318.py).  f'c is in      *)
(* tenths of a ksi, the other stresses in thousandths of a ksi, strains in *)
(* millionths, beta_1, alpha and gamma in thousandths, phi in ten          *)
(* thousandths, wc in pcf, lengths in inches, bar areas in hundredths of a *)
(* square inch and axial capacities in 1e-5 kip.                           *)
(***************************************************************************)
\* the integer part of the square root of n
ISqrt(n) == CHOOSE r \in 0..n : r * r <= n /\ n < (r + 1) * (r + 1)

\* calc_beta_1(fpc): below 2.5 ksi the method prints a note and returns 0.85
calc_beta_1(fpc) ==
    IF fpc >= 25 /\ fpc <= 40 THEN 850
    ELSE IF fpc > 40 /\ fpc < 80 THEN 850 - 5 * (fpc - 40)
    ELSE IF fpc >= 80 THEN 650
    ELSE 850

\* calc_modulus_of_rupture(fpc), lambda_agg = 1.0
calc_modulus_of_rupture(fpc) == (75 * ISqrt(fpc * 100)) \div 10

\* calc_concrete_elastic_modulus(fpc, wc), in ksi
calc_concrete_elastic_modulus(fpc, wc) ==
    (33 * wc * ISqrt(wc) * ISqrt(fpc * 100)) \div 1000

\* the Concrete that lines 96-117 of create_concrete_material construct
Concrete(fpc, eps_cu, wc) ==
    [class |-> "Concrete",
     name |-> fpc,
     density |-> (wc * 1000000) \div 1728,
     stress_strain_profile |->
         [class |-> "ConcreteLinearNoTension",
          elastic_modulus |-> calc_concrete_elastic_modulus(fpc, wc),
          ultimate_strain |-> eps_cu,
          compressive_strength |-> 85 * fpc],
     colour |-> "lightgrey",
     ultimate_stress_strain_profile |->
         [class |-> "RectangularStressBlock",
          compressive_strength |-> 100 * fpc,
          alpha |-> 850,
          gamma |-> calc_beta_1(fpc),
          ultimate_strain |-> eps_cu],
     flexural_tensile_strength |-> calc_modulus_of_rupture(fpc)]

\* the classes of this model that derive from BaseException: none
ExceptionClasses == {}

\* the statement "raise obj": obj is raised when it is an exception, and a
\* TypeError is raised in its place when it is not; nothing is returned
Raise(obj) ==
    [err |-> IF obj.class \in ExceptionClasses THEN obj.class
             ELSE "TypeError: exceptions must derive from BaseException",
     material |-> [class |-> "None"]]

\* create_concrete_material(fpc, eps_cu, wc): line 118 is "raise concrete"
create_concrete_material(fpc, eps_cu, wc) == Raise(Concrete(fpc, eps_cu, wc))

\* tensile_yield_strain = fy / Es
tensile_yield_strain(fy, Es) == (fy * 1000000) \div Es

\* the loop of calc_phis for reinf_type "other" (lines 344-355)
RECURSIVE AppendPhis(_, _, _)
AppendPhis(phis, tensile_strains, ys) ==
    IF tensile_strains = <<>> THEN phis
    ELSE LET ts == Head(tensile_strains)
             phi == IF ts <= ys THEN 6500
                    ELSE IF ts > ys /\ ts < 5000
                         THEN 6500 + (2500 * (ts - ys)) \div (5000 - ys)
                         ELSE 9000
         IN AppendPhis(Append(phis, phi), Tail(tensile_strains), ys)

\* calc_phis(tensile_strains, fy, Es, reinf_type): any other reinf_type
\* prints "Spiral ties not yet implemented!" and returns the empty list
calc_phis(tensile_strains, fy, Es, reinf_type) ==
    IF reinf_type = "other"
    THEN AppendPhis(<<>>, tensile_strains, tensile_yield_strain(fy, Es))
    ELSE <<>>

\* the body of calc_Pn (lines 382-390): max_axial_strength is assigned for
\* the tie types "other" and "spiral" only
PnBody(b, h, fpc, num_bars, bar_area, fy, tie_type) ==
    LET gross_area == b * h * 100
        rebar_area == num_bars * bar_area
        p_0 == 85 * fpc * (gross_area - rebar_area) + fy * rebar_area * 1000
    IN IF tie_type = "other" THEN [err |-> "", value |-> 4 * (p_0 \div 5)]
       ELSE IF tie_type = "spiral"
            THEN [err |-> "", value |-> (17 * (p_0 \div 5)) \div 4]
            ELSE [err |-> "UnboundLocalError: max_axial_strength", value |-> 0]

\* the parameters of calc_Pn (lines 361-367): it has no self parameter
PnParameters == 7

\* calc_Pn called with the arguments a: a.given of them are passed (from b
\* on), and a.receiver is "instance" for ACI318().calc_Pn(...), where Python
\* passes the instance as the first argument, b, or "class" for
\* ACI318.calc_Pn(...)
calc_Pn(a) ==
    IF a.receiver = "instance"
    THEN IF a.given + 1 > PnParameters
         THEN [err |-> "TypeError: calc_Pn() takes from 5 to 7 positional arguments",
               value |-> 0]
         ELSE [err |-> "TypeError: unsupported operand type(s) for *", value |-> 0]
    ELSE PnBody(a.b, a.h, a.fpc, a.num_bars, a.bar_area,
                IF a.given >= 6 THEN a.fy ELSE 60,
                IF a.given >= 7 THEN a.tie_type ELSE "other")

\* the arguments given to the three methods
FpcInputs == {20, 25, 40, 45, 60, 80, 100}
EpsCuInputs == {3000, 3500}
WcInputs == {110, 145}
StrainInputs == {-500, 0, 2068, 2069, 3500, 4999, 5000, 7000}
MaxStrains == 2
StrainLists == UNION {[1..k -> StrainInputs] : k \in 0..MaxStrains}
FyInputs == {40, 60, 80}
ReinfTypes == {"other", "spiral"}
TieTypes == {"other", "spiral", "tied"}

MaterialInputs ==
    {[fpc |-> fpc, eps_cu |-> eps_cu, wc |-> wc] :
        fpc \in FpcInputs, eps_cu \in EpsCuInputs, wc \in WcInputs}

PhiInputs ==
    {[tensile_strains |-> ts, fy |-> fy, Es |-> 29000, reinf_type |-> rt] :
        ts \in StrainLists, fy \in FyInputs, rt \in ReinfTypes}

PnInputs ==
    {[receiver |-> rc, given |-> g, b |-> 12, h |-> h, fpc |-> fpc,
      num_bars |-> nb, bar_area |-> 79, fy |-> 60, tie_type |-> tt] :
        rc \in {"instance", "class"}, g \in {7}, h \in {12, 18},
        fpc \in {40, 45}, nb \in {4, 8}, tt \in TieTypes}
    \cup
    {[receiver |-> rc, given |-> g, b |-> 12, h |-> 12, fpc |-> 40,
      num_bars |-> 4, bar_area |-> 79, fy |-> 60, tie_type |-> "other"] :
        rc \in {"instance", "class"}, g \in {5, 6}}

\* aci318.create_concrete_material(fpc, eps_cu, wc)
MaterialCreated(r) ==
    aci' = [aci EXCEPT !.done = TRUE, !.err = r.err, !.material = r.material]

CreateConcreteMaterial ==
    /\ aci.fn = "create_concrete_material"
    /\ ~aci.done
    /\ MaterialCreated(create_concrete_material(aci.args.fpc, aci.args.eps_cu,
                                                aci.args.wc))
    /\ UNCHANGED <<phase, geometry, concrete_geometries, steel_geometries,
                   gross_properties, _ult_bend_res, recalcs, call, workers>>

\* aci318.calc_phis(tensile_strains, fy, Es, reinf_type)
CalcPhis ==
    /\ aci.fn = "calc_phis"
    /\ ~aci.done
    /\ aci' = [aci EXCEPT !.done = TRUE,
                 !.phis = calc_phis(aci.args.tensile_strains, aci.args.fy,
                                    aci.args.Es, aci.args.reinf_type)]
    /\ UNCHANGED <<phase, geometry, concrete_geometries, steel_geometries,
                   gross_properties, _ult_bend_res, recalcs, call, workers>>

\* calc_Pn(b, h, fpc, num_bars, bar_area, fy, tie_type) on an ACI318 object
\* or on the class
PnReturned(r) == aci' = [aci EXCEPT !.done = TRUE, !.err = r.err, !.value = r.value]

CalcPn ==
    /\ aci.fn = "calc_Pn"
    /\ ~aci.done
    /\ PnReturned(calc_Pn(aci.args))
    /\ UNCHANGED <<phase, geometry, concrete_geometries, steel_geometries,
                   gross_properties, _ult_bend_res, recalcs, call, workers>>

\* a method of the design code object and the arguments it is called with
InitAci ==
    /\ phase = "new"
    /\ geometry = <<>>
    /\ concrete_geometries = <<>>
    /\ steel_geometries = <<>>
    /\ gross_properties = ConcreteProperties
    /\ _ult_bend_res = Absent
    /\ recalcs = 0
    /\ call = NoCall
    /\ workers = [w \in Workers |-> Idle]
    /\ \E fn \in {"create_concrete_material", "calc_phis", "calc_Pn"} :
          \E args \in (IF fn = "create_concrete_material" THEN MaterialInputs
                       ELSE IF fn = "calc_phis" THEN PhiInputs ELSE PnInputs) :
              aci = [NoAciCall EXCEPT !.fn = fn, !.args = args]

NextAci ==
    \/ CreateConcreteMaterial
    \/ CalcPhis
    \/ CalcPn

SpecAci == InitAci /\ [][NextAci]_vars

(***************************************************************************)
(* Properties of the calls.  call holds the arguments and the outcome of   *)
(* the last call made on the object.                                       *)
(***************************************************************************)
DepthErrors ==
    {"ValueError: d_n must be positive.",
     "ValueError: d_n must lie within the section, i.e. d_n <= d_t"}

\* the depth d_t of the extreme tensile fibre for the last call's theta
CallDt == calculate_extreme_fibre(geometry, call.theta).d_t

\* the residual n - N(d_n) of the last call's search at depth d_n
CallResidual(d_n) == normal_force_convergence(Self, d_n, call.theta, call.n)

C2_ActionsAtReturnedDepth ==
    (call.op = "ultimate_bending_capacity" /\ call.err = "") =>
        call.res = calculate_section_actions(Self, call.root, call.theta).res

\* C3: calculate_section_actions(d_n, theta) raises the ValueError about d_n,
\* having split and integrated nothing, when d_n <= 0 or d_n > d_t, and
\* raises no error about d_n when 0 < d_n <= d_t: then it returns, unless the
\* splitting loop reads top_geoms unbound.
C3_DepthValidation ==
    (call.op = "calculate_section_actions") =>
        /\ (call.d_n <= 0 \/ call.d_n > CallDt) =>
              /\ call.err \in DepthErrors
              /\ call.nsplit = 0
              /\ call.nint = 0
              /\ call.res = NoActions
        /\ (0 < call.d_n /\ call.d_n <= CallDt) =>
              /\ call.err \notin DepthErrors
              /\ call.err \in {"", "UnboundLocalError: top_geoms"}
              /\ call.err # "" =>
                    \E i \in 1..Len(concrete_geometries) :
                        InteriorStrains(concrete_geometries[i].material
                                            .stress_strain_profile) = <<>>

\* a call at d_n = d_t has returned the actions it integrated
C3_Witness ==
    /\ call.op = "calculate_section_actions"
    /\ call.d_n = CallDt
    /\ call.err = ""
    /\ call.nint > 0

\* C4, as the code has it: ultimate_bending_capacity(theta, n) evaluates the
\* residual n - N(d_n) at 1e-6 * d_t first, then at d_t, and after that only
\* at depths between the two; when the two residuals are both positive or
\* both negative the call raises brentq's sign error and returns nothing;
\* when one of them is 0 the call returns that end of the bracket; a depth
\* the call returns lies in the bracket.
C4_BracketedSearch ==
    (call.op = "ultimate_bending_capacity") =>
        LET a == CallDt \div EpsDen
            b == CallDt
        IN /\ Len(call.evals) >= 1
           /\ call.evals[1] = a
           /\ Len(call.evals) >= 2 => call.evals[2] = b
           /\ \A i \in 1..Len(call.evals) : a <= call.evals[i] /\ call.evals[i] <= b
           /\ call.err = "" => (a <= call.root /\ call.root <= b)
           /\ (CallResidual(a).err = "" /\ CallResidual(b).err = "") =>
                 /\ ((CallResidual(a).conv > 0 /\ CallResidual(b).conv > 0)
                     \/ (CallResidual(a).conv < 0 /\ CallResidual(b).conv < 0)) =>
                        (call.err = SignError /\ call.res = NoActions)
                 /\ CallResidual(a).conv = 0 => (call.err = "" /\ call.root = a)
                 /\ (CallResidual(a).conv # 0 /\ CallResidual(b).conv = 0) =>
                        (call.err = "" /\ call.root = b)
                 /\ call.err \in {"", SignError}

\* a search has failed on two negative residuals
C4_Witness ==
    /\ call.op = "ultimate_bending_capacity"
    /\ call.err = SignError
    /\ CallResidual(CallDt).conv < 0
    /\ CallResidual(CallDt \div EpsDen).conv < 0

\* C4, as the specification has it: the call fails with the sign error
\* whenever the residuals at the two ends of the bracket do not have opposite
\* signs.
C4_FailsUnlessOppositeSigns ==
    (/\ call.op = "ultimate_bending_capacity"
     /\ CallResidual(CallDt \div EpsDen).err = ""
     /\ CallResidual(CallDt).err = ""
     /\ ~(\/ (CallResidual(CallDt \div EpsDen).conv < 0 /\ CallResidual(CallDt).conv > 0)
          \/ (CallResidual(CallDt \div EpsDen).conv > 0 /\ CallResidual(CallDt).conv < 0)))
    => call.err = SignError

\* the region g is one of the geometries gs
InGeoms(g, gs) == \E i \in 1..Len(gs) : gs[i] = g

\* the geometry has a region of a material of class kind
HasKind(kind) == \E i \in 1..Len(geometry) : geometry[i].material.kind = kind

\* C5: construction fails when the geometry has no concrete region or no
\* steel region, with no gross or plastic property computed; when it
\* succeeds, every region of the geometry is in exactly one of
\* concrete_geometries and steel_geometries.
C5_ConstructionSorts ==
    /\ (phase # "new" /\ ~(HasKind("Concrete") /\ HasKind("Steel"))) =>
          (phase = "failed" /\ gross_properties = ConcreteProperties)
    /\ phase = "constructed" =>
          \A i \in 1..Len(geometry) :
              InGeoms(geometry[i], concrete_geometries)
                  # InGeoms(geometry[i], steel_geometries)

\* C6: construction fails with InvalidSectionError when the squash load is
\* zero, and no plastic property is stored.
C6_ZeroSquashLoadGuarded ==
    (/\ phase # "new"
     /\ ValidInput(concrete_geometries, steel_geometries)
     /\ PlasticTotals(concrete_geometries, steel_geometries).squash_load = 0)
    => /\ phase = "failed"
       /\ call.err = "InvalidSectionError"

\* C7: a calculate_section_actions, ultimate_bending_capacity or
\* moment_interaction_diagram call that raises returns nothing and leaves
\* gross_properties and _ult_bend_res as they were before the call.
C7_FailingCallsAtomic ==
    [][(/\ call'.op \in {"calculate_section_actions", "ultimate_bending_capacity",
                         "moment_interaction_diagram"}
        /\ call'.err # "")
       => /\ gross_properties' = gross_properties
          /\ _ult_bend_res' = _ult_bend_res
          /\ call'.res = NoActions
          /\ call'.n_curve = <<>>]_vars

\* C9: once the constructor has returned, no call of a public method changes
\* a field of gross_properties.
C9_GrossPropertiesImmutable ==
    [][phase = "constructed" => gross_properties' = gross_properties]_vars

\* the sum of the areas of the geometries gs
AreaOf(gs) == SumSeq([i \in 1..Len(gs) |-> calculate_area(gs[i])])

\* C10: in every state after construction, total_area = concrete_area +
\* steel_area, concrete_area being the sum of the areas of the concrete
\* regions and steel_area the sum of the areas of the steel regions.
C10_TotalArea ==
    phase = "constructed" =>
        /\ gross_properties.total_area
               = gross_properties.concrete_area + gross_properties.steel_area
        /\ gross_properties.concrete_area = AreaOf(concrete_geometries)
        /\ gross_properties.steel_area = AreaOf(steel_geometries)

\* the number of depths the axial force is sampled at, from 1e-6 * d_t to d_t
MaxDepthSamples == 10

\* the sampled depths: 1e-6 * d_t and the multiples of d_t / MaxDepthSamples
DepthSamples(d_t) ==
    {BracketA(d_t)} \cup {(k * d_t) \div MaxDepthSamples : k \in 1..MaxDepthSamples}

\* the net axial force calculate_section_actions returns at each depth of ds,
\* for the last call's theta
AxialForces(ds) ==
    [d \in ds |-> calculate_section_actions(Self, d, call.theta).res.n]

\* C11: for a fixed theta the net axial force n that
\* calculate_section_actions(d_n, theta) returns is non-decreasing in d_n
\* over the range from 1e-6 * d_t to d_t: the call that has returned and the
\* calls at the sampled depths, taken two by two, return the larger n at the
\* larger depth (or the same n).
C11_AxialForceNonDecreasing ==
    (/\ call.op = "calculate_section_actions"
     /\ call.err = "")
    => LET ds == DepthSamples(CallDt) \cup {call.d_n}
           N == AxialForces(ds)
       IN /\ N[call.d_n] = call.res.n
          /\ \A d \in ds : calculate_section_actions(Self, d, call.theta).err = ""
          /\ \A d1, d2 \in ds : d1 <= d2 => N[d1] <= N[d2]

\* a call at mid-depth on a section of two concrete regions has returned an
\* axial force strictly between those at the two ends of the range
C11_Witness ==
    /\ call.op = "calculate_section_actions"
    /\ call.err = ""
    /\ Len(concrete_geometries) = 2
    /\ call.d_n = CallDt \div 2
    /\ AxialForces({BracketA(CallDt)})[BracketA(CallDt)] < call.res.n
    /\ call.res.n < AxialForces({CallDt})[CallDt]

\* x equals y within a thousandth of the range of axial forces of the section
WithinTolerance(x, y) ==
    Abs(x - y) <= (gross_properties.squash_load - gross_properties.tensile_load)
                      \div XtolDen

\* C12, as the code has it: after construction tensile_load <= 0 <=
\* squash_load, and the net axial force that calculate_section_actions
\* returns at d_n = 1e-6 * d_t, the shallow end of the range, equals
\* tensile_load within tolerance.
C12_TensionAtShallowEnd ==
    /\ phase = "constructed" =>
          /\ gross_properties.tensile_load <= 0
          /\ 0 <= gross_properties.squash_load
    /\ (/\ call.op = "calculate_section_actions"
        /\ call.err = ""
        /\ call.d_n = BracketA(CallDt))
       => WithinTolerance(call.res.n, gross_properties.tensile_load)

\* a call at 1e-6 * d_t on a section of two bars has returned the tensile load
C12_Witness ==
    /\ call.op = "calculate_section_actions"
    /\ call.err = ""
    /\ call.d_n = BracketA(CallDt)
    /\ Len(steel_geometries) = 2
    /\ gross_properties.tensile_load < 0
    /\ call.res.n = gross_properties.tensile_load

\* C12, as the specification has it: after construction tensile_load <= 0
\* <= squash_load, and the net axial force that calculate_section_actions
\* returns at d_n = d_t equals tensile_load within tolerance.
C12_TensionAtDecompression ==
    /\ phase = "constructed" =>
          /\ gross_properties.tensile_load <= 0
          /\ 0 <= gross_properties.squash_load
    /\ (/\ call.op = "calculate_section_actions"
        /\ call.err = ""
        /\ call.d_n = CallDt)
       => WithinTolerance(call.res.n, gross_properties.tensile_load)

\* C13: create_concrete_material(fpc, ...) ends by returning, with no
\* error, a Concrete whose service profile is linear with no tension and
\* whose ultimate profile is a rectangular stress block of alpha 0.85 and
\* gamma calc_beta_1(fpc).
C13_ReturnsConcrete ==
    (aci.fn = "create_concrete_material" /\ aci.done) =>
        /\ aci.err = ""
        /\ aci.material.class = "Concrete"
        /\ aci.material.stress_strain_profile.class = "ConcreteLinearNoTension"
        /\ aci.material.ultimate_stress_strain_profile.class = "RectangularStressBlock"
        /\ aci.material.ultimate_stress_strain_profile.alpha = 850
        /\ aci.material.ultimate_stress_strain_profile.gamma
               = calc_beta_1(aci.args.fpc)

\* phi for the tensile strain ts and the yield strain ys, by the three cases
PhiOf(ts, ys) ==
    IF ts <= ys THEN 6500
    ELSE IF ts >= 5000 THEN 9000
    ELSE 6500 + (2500 * (ts - ys)) \div (5000 - ys)

\* C14: calc_phis returns exactly one phi per input strain, in input order:
\* 0.65 for a strain <= fy/Es, 0.9 for a strain >= 0.005 and the linear
\* interpolation in between; every phi lies in [0.65, 0.9] and phi is
\* non-decreasing in the strain.
C14_OnePhiPerStrain ==
    (aci.fn = "calc_phis" /\ aci.done) =>
        LET ts == aci.args.tensile_strains
            ys == tensile_yield_strain(aci.args.fy, aci.args.Es)
        IN /\ Len(aci.phis) = Len(ts)
           /\ \A i \in 1..Len(aci.phis) :
                 /\ i <= Len(ts) => aci.phis[i] = PhiOf(ts[i], ys)
                 /\ 6500 <= aci.phis[i]
                 /\ aci.phis[i] <= 9000
           /\ \A i, j \in 1..Len(aci.phis) :
                 (i <= Len(ts) /\ j <= Len(ts) /\ ts[i] <= ts[j])
                     => aci.phis[i] <= aci.phis[j]

\* P0 = 0.85 * fpc * (b * h - num_bars * bar_area) + fy * num_bars * bar_area
NominalP0(a) ==
    85 * a.fpc * (a.b * a.h * 100 - a.num_bars * a.bar_area)
    + a.fy * a.num_bars * a.bar_area * 1000

\* C15: calc_Pn called on an ACI318 instance with (b, h, fpc, num_bars,
\* bar_area, fy, tie_type) returns 0.8 * P0 for tie_type "other" and
\* 0.85 * P0 for tie_type "spiral"; for every tie_type it returns such a
\* value or reports an error about the tie type.
C15_NominalAxialCapacity ==
    (/\ aci.fn = "calc_Pn"
     /\ aci.done
     /\ aci.args.receiver = "instance"
     /\ aci.args.given = PnParameters)
    => /\ aci.args.tie_type = "other" =>
             (aci.err = "" /\ aci.value = 4 * (NominalP0(aci.args) \div 5))
       /\ aci.args.tie_type = "spiral" =>
             (aci.err = "" /\ aci.value = (17 * (NominalP0(aci.args) \div 5)) \div 4)
       /\ aci.args.tie_type \notin {"other", "spiral"} =>
             aci.err = "ValueError: tie_type"

\* the state the splitting loop (lines 419-449) of the last call ended in
CallSplit ==
    SplitConcrete(SplitStart, concrete_geometries, 1, call.theta,
                  point_on_neutral_axis(
                      calculate_extreme_fibre(geometry, call.theta).extreme_fibre,
                      call.d_n),
                  call.d_n, gross_properties.conc_ultimate_strain)

\* the pieces of split that were cut from concrete region i, in order
PiecesOf(split, i) ==
    LET FromRegion(p) == p.src = i
    IN SelectSeq(split, FromRegion)

\* C16: in a calculate_section_actions call that passed the validation of
\* d_n, the loop adds to the split set, for every concrete region in turn
\* (whatever the number of interior breakpoints of its profile and the number
\* of regions), pieces of that region only, from the bottom piece up to the
\* remaining top piece, whose areas sum to the area of the region.
C16_SplitKeepsEveryRegion ==
    (/\ call.op = "calculate_section_actions"
     /\ call.err \notin DepthErrors)
    => /\ ~CallSplit.err
       /\ \A k \in 1..(Len(CallSplit.split) - 1) :
             CallSplit.split[k].src <= CallSplit.split[k + 1].src
       /\ \A i \in 1..Len(concrete_geometries) :
             LET ps == PiecesOf(CallSplit.split, i)
                 g == LocalPiece(concrete_geometries[i], call.theta, i)
             IN /\ SumSeq([k \in 1..Len(ps) |-> ps[k].b * (ps[k].hi - ps[k].lo)])
                       = g.b * (g.hi - g.lo)
                /\ \A k \in 1..Len(ps) :
                      /\ g.lo <= ps[k].lo
                      /\ ps[k].hi <= g.hi
                      /\ ps[k].material = g.material
                      /\ k < Len(ps) => ps[k].hi <= ps[k + 1].lo

\* the compressive force of the region g at squash: area * alpha_1 * f'c for
\* concrete, area * yield strength for steel
SquashForce(g) ==
    IF g.material.kind = "Concrete"
    THEN calculate_area(g) * g.material.alpha_1 * g.material.compressive_strength
    ELSE calculate_area(g) * g.material.yield_strength

\* the sum over the regions gs of force, or of force times a coordinate of
\* the centroid (1 for x, 2 for y)
RECURSIVE SumForces(_, _)
SumForces(gs, coord) ==
    IF gs = <<>> THEN 0
    ELSE SquashForce(Head(gs))
             * (IF coord = 0 THEN 1 ELSE calculate_centroid(Head(gs))[coord])
         + SumForces(Tail(gs), coord)

\* C17: after construction squash_load is the sum over the concrete regions
\* of area * alpha_1 * compressive_strength plus the sum over the steel
\* regions of area * yield_strength, tensile_load is minus that steel sum,
\* the plastic centroid is the sum of force * centroid over the same forces
\* divided by squash_load, and the ultimate strain is that of the first
\* concrete region.
C17_PlasticProperties ==
    phase = "constructed" =>
        LET regions == concrete_geometries \o steel_geometries
            strains == concrete_geometries[1].material.stress_strain_profile.strains
        IN /\ gross_properties.squash_load = SumForces(regions, 0)
           /\ gross_properties.tensile_load = -SumForces(steel_geometries, 0)
           /\ gross_properties.axial_pc_x
                  = SumForces(regions, 1) \div gross_properties.squash_load
           /\ gross_properties.axial_pc_y
                  = SumForces(regions, 2) \div gross_properties.squash_load
           /\ gross_properties.conc_ultimate_strain = strains[Len(strains)]

\* a section of two concrete regions of different ultimate strains has been
\* constructed, and its plastic properties recomputed
C17_Witness ==
    /\ phase = "constructed"
    /\ call.op = "calculate_gross_plastic_properties"
    /\ Len(concrete_geometries) = 2
    /\ get_ultimate_strain(concrete_geometries[1].material.stress_strain_profile)
           # get_ultimate_strain(concrete_geometries[2].material.stress_strain_profile)
    /\ gross_properties.squash_load > -gross_properties.tensile_load
    /\ gross_properties.tensile_load < 0
    /\ gross_properties.axial_pc_y > 0

\* C8: when calls on one object interleave, a call that returns returns
\* actions that one of its own evaluations computed.
C8_NoInterference ==
    \A w \in Workers :
        workers[w].pc = "done" =>
            /\ workers[w].ret.set = "vals"
            /\ workers[w].ret.val \in workers[w].mine

====
